---- MODULE Spec2Model ----
(***************************************************************************)
(* Model of data_acquisition.py: the ticker-list reader, the three         *)
(* provider adapters, the aggregator fetch_and_merge_data, the two         *)
(* top-level runs get_backtest_data and get_modelling_data, and the two    *)
(* calculators calculate_growth_rate and calculate_intrinsic_value.        *)
(*                                                                         *)
(* A DataFrame is a record of its set of columns and the sequence of its   *)
(* rows; a row is a record whose domain is the frame's columns ("Reported  *)
(* EPS" is spelled ReportedEPS, "Quarterly Growth" QuarterlyGrowth,        *)
(* "Annualized Growth Rate" AnnualizedGrowthRate).  pd.DataFrame() has no  *)
(* column and no row; a provider that has no data answers with a frame     *)
(* that has its columns and no row.  A float is an exact rational n/d or   *)
(* one of the IEEE specials nan, +inf, -inf; rounding is not modelled.     *)
(***************************************************************************)
EXTENDS Integers, Sequences, FiniteSets, TLC

VARIABLES
    file,               \* the input file get_tickers_list reads
    pandas,             \* the installed pandas build (see PandasBuilds)
    backtest_data,      \* what the path backtest_data is (see Paths)
    dirBefore,          \* history: what it was when the run started
    fs,                 \* files the run made under backtest_data: name -> content
    log,                \* logging.error / logging.info records, in order
    raised,             \* the exception that escaped the top-level call
    pc,                 \* position of the running top-level call
    tickers,            \* stock_tickers / ticker_list, as returned by get_tickers_list
    i,                  \* 1-based position of the for loop in tickers
    all_stock_data,     \* fetch_and_merge_data's three accumulators
    all_dividends_data,
    all_earnings_data,
    merged,             \* what fetch_and_merge_data returned
    macro_data,         \* what fetch_fred_data returned
    calls,              \* history: what the provider answered, per loop iteration
    arg,                \* argument(s) of a calculator called on its own
    ret                 \* its return value (and the argument after the call)

vars == <<file, pandas, backtest_data, dirBefore, fs, log, raised, pc, tickers, i,
          all_stock_data, all_dividends_data, all_earnings_data, merged,
          macro_data, calls, arg, ret>>

----------------------------------------------------------------------------
(* Bounds of the model.                                                    *)

MaxFileRows == 2        \* rows of the input file in the pipeline runs
MaxColumnRows == 6      \* rows of the input file when get_tickers_list runs alone
MaxEPS == 4             \* rows of the earnings table given to calculate_growth_rate
MaxNum == 2             \* numerators of the calculators' numeric arguments

TickerLimit == 5        \* tickers_list[:5]

----------------------------------------------------------------------------
(* Floats.                                                                 *)

Abs(n) == IF n < 0 THEN -n ELSE n
Sgn(n) == IF n < 0 THEN -1 ELSE IF n > 0 THEN 1 ELSE 0

RECURSIVE GCD(_, _)
GCD(a, b) == IF b = 0 THEN a ELSE GCD(b, a % b)

NaN == [k |-> "nan", n |-> 0, d |-> 0]
Inf(s) == [k |-> "inf", n |-> s, d |-> 0]
\* n/d in lowest terms, d > 0
Q(n, d) == LET g == GCD(Abs(n), Abs(d))
           IN  [k |-> "num", n |-> (Sgn(d) * n) \div g, d |-> Abs(d) \div g]
Num(n) == Q(n, 1)
\* a value that float() rejects (an object cell such as "-")
NonNumeric == [k |-> "str", n |-> 0, d |-> 0]
\* Python's None
None == [k |-> "none", n |-> 0, d |-> 0]

IsFloat(x) == x.k \in {"num", "nan", "inf"}
IsFinite(x) == x.k = "num"

FNeg(a) == IF a.k = "nan" THEN NaN
           ELSE IF a.k = "inf" THEN Inf(-a.n) ELSE Q(-a.n, a.d)

FAdd(a, b) ==
    IF a.k = "nan" \/ b.k = "nan" THEN NaN
    ELSE IF a.k = "inf" /\ b.k = "inf" THEN (IF a.n = b.n THEN a ELSE NaN)
    ELSE IF a.k = "inf" THEN a
    ELSE IF b.k = "inf" THEN b
    ELSE Q(a.n * b.d + b.n * a.d, a.d * b.d)

FSub(a, b) == FAdd(a, FNeg(b))

FMul(a, b) ==
    IF a.k = "nan" \/ b.k = "nan" THEN NaN
    ELSE IF a.k = "inf" \/ b.k = "inf"
         THEN (IF a.n = 0 \/ b.n = 0 THEN NaN ELSE Inf(Sgn(a.n) * Sgn(b.n)))
    ELSE Q(a.n * b.n, a.d * b.d)

\* numpy float division: x/0 is +-inf, 0/0 is nan, nothing raises
FDiv(a, b) ==
    IF a.k = "nan" \/ b.k = "nan" THEN NaN
    ELSE IF a.k = "inf" /\ b.k = "inf" THEN NaN
    ELSE IF a.k = "inf" THEN Inf(IF b.n < 0 THEN -a.n ELSE a.n)
    ELSE IF b.k = "inf" THEN Num(0)
    ELSE IF b.n = 0 THEN (IF a.n = 0 THEN NaN ELSE Inf(Sgn(a.n)))
    ELSE Q(a.n * b.d, a.d * b.n)

----------------------------------------------------------------------------
(* Sequences and frames.                                                   *)

Last(s) == s[Len(s)]
Front(s) == SubSeq(s, 1, Len(s) - 1)
Range(s) == {s[j] : j \in DOMAIN s}
SeqsUpTo(S, n) == UNION {[1..m -> S] : m \in 0..n}

\* pd.DataFrame() and pd.Series(): no column, no row
DataFrame == [columns |-> {}, rows |-> <<>>]

\* the frame of the given columns and rows
Frame(cols, rows) == [columns |-> cols, rows |-> rows]

\* df[col] = v for a series v: the frame with column col added or replaced
SetColumn(df, col, v) ==
    [columns |-> df.columns \cup {col},
     rows |-> [j \in DOMAIN df.rows |->
                  [c \in df.columns \cup {col} |->
                      IF c = col THEN v[j] ELSE df.rows[j][c]]]]

\* df[col] = v for a scalar v
SetColumnScalar(df, col, v) == SetColumn(df, col, [j \in DOMAIN df.rows |-> v])

\* DataFrame.empty: an axis of length 0
empty(df) == df.columns = {} \/ Len(df.rows) = 0

\* df[col], the column as a series
Column(df, col) == [j \in DOMAIN df.rows |-> df.rows[j][col]]

----------------------------------------------------------------------------
(* The input file and get_tickers_list.                                    *)

Tickers == {"AAPL", "MSFT", "XOM"}
\* Python orders strings lexicographically: "AAPL" < "MSFT" < "XOM"
TickerOrder == <<"AAPL", "MSFT", "XOM">>
TickerRank(t) == CHOOSE j \in DOMAIN TickerOrder : TickerOrder[j] = t

\* a cell read_csv takes for a missing value (its default na_values), and the
\* float nan it puts in the column for it
NAMarkers == {"NA"}
NaNCell == "float:nan"

\* what can stand in the Ticker column of a file
Cells == Tickers \cup NAMarkers

Min(a, b) == IF a < b THEN a ELSE b

\* pd.read_csv(input_file)["Ticker"].to_list(), for a file that has the column
read_csv_Ticker(f) ==
    [j \in DOMAIN f.column |->
        IF f.column[j] \in NAMarkers THEN NaNCell ELSE f.column[j]]

\* does get_tickers_list's try block raise (FileNotFoundError, KeyError)
get_tickers_list_fails(f) == ~f.exists \/ ~f.hasTicker

get_tickers_list(f) ==
    IF get_tickers_list_fails(f) THEN <<>>
    ELSE LET tickers_list == read_csv_Ticker(f)
         IN  SubSeq(tickers_list, 1, Min(TickerLimit, Len(tickers_list)))

get_tickers_list_log(f) ==
    IF get_tickers_list_fails(f) THEN <<[msg |-> "Error reading tickers list", ticker |-> ""]>>
    ELSE <<>>

MissingFile == [exists |-> FALSE, hasTicker |-> FALSE, column |-> <<>>]
NoTickerColumn == [exists |-> TRUE, hasTicker |-> FALSE, column |-> <<>>]
FileOf(col) == [exists |-> TRUE, hasTicker |-> TRUE, column |-> col]

\* the files of the pipeline runs
PipelineFiles ==
    {MissingFile, NoTickerColumn} \cup {FileOf(c) : c \in SeqsUpTo(Tickers, MaxFileRows)}

\* the files get_tickers_list is run alone on
ColumnFiles ==
    {MissingFile, NoTickerColumn} \cup {FileOf(c) : c \in SeqsUpTo(Cells, MaxColumnRows)}

----------------------------------------------------------------------------
(* The providers: what Yahoo Finance and FRED can answer.                  *)

\* stock.history(start, end): indexed by Date, ascending
HistoryOf(t) ==
    Frame({"Date", "Close"},
          CASE t = "AAPL" -> <<[Date |-> 1, Close |-> 10], [Date |-> 3, Close |-> 12]>>
            [] t = "MSFT" -> <<[Date |-> 1, Close |-> 20], [Date |-> 2, Close |-> 21]>>
            [] OTHER      -> <<[Date |-> 2, Close |-> 30]>>)

\* stock.dividends: a Series indexed by Date; XOM pays none in the model
DividendsOf(t) ==
    Frame({"Date", "Dividends"},
          CASE t = "AAPL" -> <<[Date |-> 2, Dividends |-> 1]>>
            [] t = "MSFT" -> <<[Date |-> 1, Dividends |-> 2],
                               [Date |-> 3, Dividends |-> 2]>>
            [] OTHER      -> <<>>)

\* stock.get_earnings_dates(limit=8): most recent first, nan for a date to come
EarningsOf(t) ==
    Frame({"Date", "ReportedEPS"},
          CASE t = "AAPL" -> <<[Date |-> 3, ReportedEPS |-> NaN],
                               [Date |-> 2, ReportedEPS |-> Q(11, 5)],
                               [Date |-> 1, ReportedEPS |-> Num(2)]>>
            [] t = "MSFT" -> <<[Date |-> 2, ReportedEPS |-> Num(3)]>>
            [] OTHER      -> <<[Date |-> 2, ReportedEPS |-> NonNumeric],
                               [Date |-> 1, ReportedEPS |-> Num(1)]>>)

\* the answer of a provider that has no data: the columns and no row
NoRows(df) == Frame(df.columns, <<>>)

\* a call of the try block of fetch_yahoo_finance_data: it raises (ok = FALSE,
\* hist and divs are then never looked at), or the provider has no data, or
\* it has the ticker's data
YahooResponses(t) ==
    {[ok |-> FALSE, hist |-> DataFrame, divs |-> DataFrame]} \cup
    {[ok |-> TRUE, hist |-> h, divs |-> d] :
        h \in {NoRows(HistoryOf(t)), HistoryOf(t)},
        d \in {NoRows(DividendsOf(t)), DividendsOf(t)}}

EarningsResponses(t) ==
    {[ok |-> FALSE, cal |-> DataFrame]} \cup
    {[ok |-> TRUE, cal |-> c] : c \in {NoRows(EarningsOf(t)), EarningsOf(t)}}

\* fred.get_series: a Series indexed by date
GS10 == Frame({"Date", "GS10"}, <<[Date |-> 1, GS10 |-> 4], [Date |-> 2, GS10 |-> 5]>>)

FredResponses ==
    {[ok |-> FALSE, series |-> DataFrame],
     [ok |-> TRUE, series |-> NoRows(GS10)],
     [ok |-> TRUE, series |-> GS10]}

----------------------------------------------------------------------------
(* The provider adapters.  Each takes the provider's answer to its call.   *)

ErrorLog(message, ticker) == <<[msg |-> message, ticker |-> ticker]>>

\* the pair (historical_data.reset_index(), dividends), or two empty frames
fetch_yahoo_finance_data(ticker, resp) ==
    IF resp.ok
    THEN <<SetColumnScalar(resp.hist, "Ticker", ticker),
           SetColumnScalar(resp.divs, "Ticker", ticker)>>
    ELSE <<DataFrame, DataFrame>>

fetch_yahoo_finance_data_log(ticker, resp) ==
    IF resp.ok THEN <<>> ELSE ErrorLog("Error fetching data for", ticker)

fetch_yahoo_earnings_data(ticker, resp) ==
    IF resp.ok THEN SetColumnScalar(resp.cal, "Ticker", ticker) ELSE DataFrame

fetch_yahoo_earnings_data_log(ticker, resp) ==
    IF resp.ok THEN <<>> ELSE ErrorLog("Error fetching earnings data for", ticker)

fetch_fred_data(resp) == IF resp.ok THEN resp.series ELSE DataFrame

fetch_fred_data_log(resp) ==
    IF resp.ok THEN <<>> ELSE ErrorLog("Error fetching FRED data for series_id", "GS10")

----------------------------------------------------------------------------
(* pandas: concat and sort_values.                                         *)

\* pd.concat(objs) raises ValueError("No objects to concatenate") on an empty list
concat_raises(objs) == objs = <<>>

\* pd.concat(objs) for a list that is not empty: the rows one frame after
\* the other (the frames of one list have the same columns)
RECURSIVE concat(_)
concat(objs) ==
    IF Len(objs) = 1 THEN objs[1]
    ELSE LET c == concat(Front(objs))
         IN  Frame(c.columns \cup Last(objs).columns, c.rows \o Last(objs).rows)

\* the comparison of sort_values(by=["Date"]): the second key forgotten
DateLeq(a, b) == a.Date <= b.Date

\* row a sorts at or before row b under by=["Date", "Ticker"]
DateTickerLeq(a, b) ==
    \/ a.Date < b.Date
    \/ a.Date = b.Date /\ TickerRank(a.Ticker) <= TickerRank(b.Ticker)

\* r put behind every row of the sorted frame s that sorts at or before it
RECURSIVE InsertRow(_, _)
InsertRow(s, r) ==
    IF s = <<>> THEN <<r>>
    ELSE IF DateTickerLeq(Last(s), r) THEN Append(s, r)
    ELSE Append(InsertRow(Front(s), r), Last(s))

\* the rows in (Date, Ticker) order, rows that compare equal in their old order
RECURSIVE SortRows(_)
SortRows(rows) ==
    IF rows = <<>> THEN <<>> ELSE InsertRow(SortRows(Front(rows)), Last(rows))

\* df.sort_values(by=["Date", "Ticker"]).reset_index(drop=True): a stable sort
sort_values(df) == Frame(df.columns, SortRows(df.rows))

----------------------------------------------------------------------------
(* The file system: the path backtest_data and the files under it.         *)

\* what the path backtest_data is when a run starts: nothing, nothing in a
\* working directory that does not let the process create it, a directory,
\* or something that is no directory (a regular file)
Paths == {"absent", "denied", "directory", "file"}

NoFiles == [n \in {} |-> DataFrame]

\* what a call df.to_csv(path) can come to, for a frame of n rows: the file
\* is written; open() is refused (a directory in the way, no permission)
\* and no file is made; or the file is opened, which creates or empties it,
\* and a later write, flush or close fails (disk full, quota) with left rows
\* of the table in the file: -1 for a file of no byte, 0 for the header
\* alone, n when the failure came behind the last row
to_csv_failures(n) ==
    {[kind |-> "refused", left |-> 0]}
    \cup {[kind |-> "failed", left |-> k] : k \in -1..n}

to_csv_outcomes(n) == {[kind |-> "written", left |-> n]} \cup to_csv_failures(n)

\* does the call raise (OSError)
to_csv_raises(out) == out.kind # "written"

\* the file the call leaves when it has opened it
to_csv_file(df, out) ==
    IF out.kind = "written" THEN df
    ELSE IF out.left < 0 THEN DataFrame
    ELSE Frame(df.columns, SubSeq(df.rows, 1, out.left))

\* the files after df.to_csv("backtest_data/" + name)
to_csv(f, name, df, out) ==
    IF out.kind = "refused" THEN f
    ELSE [n \in DOMAIN f \cup {name} |-> IF n = name THEN to_csv_file(df, out) ELSE f[n]]

\* os.makedirs("backtest_data", exist_ok=True): exist_ok silences the error
\* for a directory that is there, not the one for a path that is no
\* directory, and not a refused mkdir
exist_ok == TRUE
makedirs_error(path) ==
    CASE path = "absent"    -> "none"
      [] path = "denied"    -> "PermissionError"
      [] path = "directory" -> IF exist_ok THEN "none" ELSE "FileExistsError"
      [] OTHER              -> "FileExistsError"

makedirs_raises(path) == makedirs_error(path) # "none"

\* the path after the call
makedirs(path) == IF makedirs_raises(path) THEN path ELSE "directory"

----------------------------------------------------------------------------
(* get_backtest_data, with fetch_and_merge_data inlined where it is called. *)

NoMerged == [stock |-> DataFrame, dividends |-> DataFrame, earnings |-> DataFrame]

\* Lines 96-99 and 68-70: read the ticker list, start the loop.
GetBacktestData_Start ==
    /\ pc = "idle"
    /\ tickers' = get_tickers_list(file)
    /\ log' = log \o get_tickers_list_log(file)
    /\ i' = 1
    /\ pc' = "fetch"
    /\ UNCHANGED <<file, pandas, backtest_data, dirBefore, fs, raised, all_stock_data,
                   all_dividends_data, all_earnings_data, merged, macro_data,
                   calls, arg, ret>>

\* the accumulator after "if not df.empty: all.append(df)"
append_if_not_empty(all, df) == IF ~empty(df) THEN Append(all, df) ELSE all

\* Lines 73-83: one iteration of the loop of fetch_and_merge_data.
FetchAndMerge_Iteration ==
    /\ pc = "fetch"
    /\ i <= Len(tickers)
    /\ \E y \in YahooResponses(tickers[i]), e \in EarningsResponses(tickers[i]) :
        LET ticker == tickers[i]
            data == fetch_yahoo_finance_data(ticker, y)
            stock_data == data[1]
            dividends_data == data[2]
            earnings_data == fetch_yahoo_earnings_data(ticker, e)
        IN  /\ all_stock_data' = append_if_not_empty(all_stock_data, stock_data)
            /\ all_dividends_data' = append_if_not_empty(all_dividends_data, dividends_data)
            /\ all_earnings_data' = append_if_not_empty(all_earnings_data, earnings_data)
            /\ log' = log \o fetch_yahoo_finance_data_log(ticker, y)
                          \o fetch_yahoo_earnings_data_log(ticker, e)
            /\ calls' = Append(calls, [ticker |-> ticker, yahoo |-> y, earnings |-> e])
    /\ i' = i + 1
    /\ UNCHANGED <<file, pandas, backtest_data, dirBefore, fs, raised, pc, tickers, merged,
                   macro_data, arg, ret>>

\* pd.concat(all).sort_values(by=["Date", "Ticker"]).reset_index(drop=True)
merge(all) == sort_values(concat(all))

\* does one of the three statements of lines 86-88 raise
merge_raises(stock, dividends, earnings) ==
    concat_raises(stock) \/ concat_raises(dividends) \/ concat_raises(earnings)

\* Lines 86-90: the loop is over; concatenate, sort and return, or raise.
FetchAndMerge_Concat ==
    /\ pc = "fetch"
    /\ i > Len(tickers)
    /\ IF merge_raises(all_stock_data, all_dividends_data, all_earnings_data)
       THEN /\ raised' = "ValueError: No objects to concatenate"
            /\ pc' = "raised"
            /\ UNCHANGED merged
       ELSE /\ merged' = [stock     |-> merge(all_stock_data),
                          dividends |-> merge(all_dividends_data),
                          earnings  |-> merge(all_earnings_data)]
            /\ pc' = "merged"
            /\ UNCHANGED raised
    /\ UNCHANGED <<file, pandas, backtest_data, dirBefore, fs, log, tickers, i, all_stock_data,
                   all_dividends_data, all_earnings_data, macro_data, calls, arg, ret>>

BacktestFiles ==
    {"stock_data.csv", "dividends_data.csv", "earnings_data.csv", "macro_data.csv"}

\* Lines 111-118: the four tables in the order they are written, each with
\* the name of its file.
backtest_writes(m, macro) ==
    <<[name |-> "stock_data.csv", df |-> m.stock],
      [name |-> "dividends_data.csv", df |-> m.dividends],
      [name |-> "earnings_data.csv", df |-> m.earnings],
      [name |-> "macro_data.csv", df |-> macro]>>

\* lines 111-117 with the guard of line 117 left out
is_written_macro_unguarded(name, df) == name = "macro_data.csv" \/ ~empty(df)

\* "if not df.empty:" of lines 111, 113, 115 and 117
is_written(name, df) == ~empty(df)

\* no to_csv call fails
NoFailure == [name |-> "none", out |-> [kind |-> "written", left |-> 0]]

\* how the to_csv calls can go: none fails, or the call for one of the files
\* that are written is the first to fail, in one of the ways it can
write_failures(writes) ==
    {NoFailure} \cup
    UNION {{[name |-> writes[j].name, out |-> o] :
               o \in to_csv_failures(Len(writes[j].df.rows))} :
           j \in {k \in DOMAIN writes : is_written(writes[k].name, writes[k].df)}}

\* does one of the to_csv calls raise (OSError)
save_backtest_files_raises(failure) == failure # NoFailure

\* Lines 111-118: the files after the guarded to_csv calls, one after the
\* other.  A call that raises ends the run: the files of the calls before
\* it stay, and so does what the failing call left of its own file.
RECURSIVE save_backtest_files(_, _, _)
save_backtest_files(f, writes, failure) ==
    IF writes = <<>> THEN f
    ELSE LET w == Head(writes)
             written == [kind |-> "written", left |-> Len(w.df.rows)]
         IN  IF ~is_written(w.name, w.df)
             THEN save_backtest_files(f, Tail(writes), failure)
             ELSE IF w.name = failure.name THEN to_csv(f, w.name, w.df, failure.out)
             ELSE save_backtest_files(to_csv(f, w.name, w.df, written),
                                      Tail(writes), failure)

\* Lines 105-118: fetch the macro series, make the directory, write the
\* files.  Neither line 108 nor the to_csv calls stand in a try block.
GetBacktestData_Write ==
    /\ pc = "merged"
    /\ \E r \in FredResponses :
        LET writes == backtest_writes(merged, fetch_fred_data(r))
        IN  /\ macro_data' = fetch_fred_data(r)
            /\ log' = log \o fetch_fred_data_log(r)
            /\ backtest_data' = makedirs(backtest_data)
            /\ IF makedirs_raises(backtest_data)
               THEN /\ raised' = makedirs_error(backtest_data)
                    /\ pc' = "raised"
                    /\ UNCHANGED fs
               ELSE \E failure \in write_failures(writes) :
                    /\ fs' = save_backtest_files(fs, writes, failure)
                    /\ IF save_backtest_files_raises(failure)
                       THEN raised' = "OSError" /\ pc' = "raised"
                       ELSE pc' = "done" /\ UNCHANGED raised
    /\ UNCHANGED <<file, pandas, dirBefore, tickers, i, all_stock_data, all_dividends_data,
                   all_earnings_data, merged, calls, arg, ret>>

InitPipeline ==
    /\ file \in PipelineFiles
    /\ backtest_data \in Paths
    /\ dirBefore = backtest_data
    /\ fs = NoFiles
    /\ log = <<>>
    /\ raised = "none"
    /\ pc = "idle"
    /\ tickers = <<>>
    /\ i = 0
    /\ all_stock_data = <<>>
    /\ all_dividends_data = <<>>
    /\ all_earnings_data = <<>>
    /\ merged = NoMerged
    /\ macro_data = DataFrame
    /\ calls = <<>>
    /\ arg = None
    /\ ret = None

InitBacktest == InitPipeline /\ pandas = "pad"

NextBacktest ==
    \/ GetBacktestData_Start
    \/ FetchAndMerge_Iteration
    \/ FetchAndMerge_Concat
    \/ GetBacktestData_Write

SpecBacktest == InitBacktest /\ [][NextBacktest]_vars

----------------------------------------------------------------------------
(* calculate_growth_rate.                                                  *)

\* Series.ffill(): a nan takes the last value before it that is not nan
RECURSIVE ffill(_)
ffill(x) ==
    IF x = <<>> THEN <<>>
    ELSE LET f == ffill(Front(x))
         IN  Append(f, IF Last(x).k = "nan" /\ f # <<>> THEN Last(f) ELSE Last(x))

\* the pandas builds that differ in Series.pct_change(): before 3.0 the
\* default fill_method is "pad" ("pad"), in 2.1.0 and 2.1.1 the call moreover
\* raises ValueError on a series without a value ("pad-2.1"), from 3.0 on
\* nothing is filled ("nofill")
PandasBuilds == {"pad", "pad-2.1", "nofill"}

\* does pct_change() forward-fill by default
pads(build) == build \in {"pad", "pad-2.1"}

\* does pct_change() raise
pct_change_raises(x, build) == build = "pad-2.1" /\ x = <<>>

\* Series.pct_change(): data / data.shift(1) - 1, where data is the series
\* itself or, with a pandas whose default fill_method is "pad", the series
\* forward-filled
pct_change(x, build) ==
    LET data == IF pads(build) THEN ffill(x) ELSE x
    IN  [j \in DOMAIN x |->
            IF j = 1 THEN NaN ELSE FSub(FDiv(data[j], data[j - 1]), Num(1))]

\* Series.dropna(): nan goes, +-inf stays
dropna(x) == SelectSeq(x, LAMBDA v : v.k # "nan")

RECURSIVE FSum(_)
FSum(x) == IF x = <<>> THEN Num(0) ELSE FAdd(FSum(Front(x)), Last(x))

\* np.mean of a series that is not empty
mean(x) == FDiv(FSum(x), Num(Len(x)))

\* does line 125 raise: KeyError for a frame without the column (the frame
\* of a failed fetch has no column at all), ValueError from astype(float)
\* for a cell that is no number
astype_raises(earnings_df) ==
    IF "ReportedEPS" \notin earnings_df.columns THEN TRUE
    ELSE \E j \in DOMAIN earnings_df.rows : ~IsFloat(earnings_df.rows[j].ReportedEPS)

\* does the try block raise: line 125, or pct_change() of line 128
growth_rate_raises(earnings_df, build) ==
    IF astype_raises(earnings_df) THEN TRUE
    ELSE pct_change_raises(Column(earnings_df, "ReportedEPS"), build)

\* earnings_df["Reported EPS"].pct_change() of line 128
quarterly_growth(earnings_df, build) ==
    pct_change(Column(earnings_df, "ReportedEPS"), build)

\* Lines 122-141: the value returned.  A frame with the column and no row
\* raises nothing (but for pct_change_raises): growth_rates is empty.
calculate_growth_rate(earnings_df, build) ==
    IF growth_rate_raises(earnings_df, build) THEN None
    ELSE LET growth_rates == dropna(quarterly_growth(earnings_df, build))
         IN  IF growth_rates = <<>> THEN None
             ELSE LET average_quarterly_growth_rate == mean(growth_rates)
                  IN  FMul(average_quarterly_growth_rate, Num(4))

\* Lines 125-128: the caller's frame after the call (the two column
\* assignments act on the frame that was passed in; line 125 leaves the
\* floats of the model as they are).
calculate_growth_rate_frame(earnings_df, build) ==
    IF growth_rate_raises(earnings_df, build) THEN earnings_df
    ELSE SetColumn(earnings_df, "QuarterlyGrowth", quarterly_growth(earnings_df, build))

\* Lines 139-140: the error is logged exactly when the try block raised.
calculate_growth_rate_log(earnings_df, build) ==
    IF growth_rate_raises(earnings_df, build)
    THEN ErrorLog("Error calculating growth rate", "") ELSE <<>>

----------------------------------------------------------------------------
(* calculate_intrinsic_value.                                              *)

\* Line 147 raises TypeError when an operand is None
intrinsic_value_raises(eps, growth_rate) == ~IsFloat(eps) \/ ~IsFloat(growth_rate)

\* line 147 with the factor 2 left out
calculate_intrinsic_value_undoubled(eps, growth_rate) ==
    IF intrinsic_value_raises(eps, growth_rate) THEN None
    ELSE FMul(eps, FAdd(Num(7), growth_rate))

\* Lines 145-150.
calculate_intrinsic_value(eps, growth_rate) ==
    IF intrinsic_value_raises(eps, growth_rate) THEN None
    ELSE FMul(eps, FAdd(Num(7), FMul(Num(2), growth_rate)))

calculate_intrinsic_value_log(eps, growth_rate) ==
    IF intrinsic_value_raises(eps, growth_rate)
    THEN ErrorLog("Error calculating intrinsic value", "") ELSE <<>>

----------------------------------------------------------------------------
(* save_to_csv and get_modelling_data.                                     *)

\* f"{ticker}_modelling_data.csv"
ModellingFile(t) ==
    CASE t = "AAPL" -> "AAPL_modelling_data.csv"
      [] t = "MSFT" -> "MSFT_modelling_data.csv"
      [] OTHER      -> "XOM_modelling_data.csv"

\* Line 169: the frame with the constant column
with_growth_rate(earnings_data, annualized_growth_rate) ==
    SetColumnScalar(earnings_data, "AnnualizedGrowthRate", annualized_growth_rate)

\* Lines 166-176: the files after the call; out is what to_csv of line 173
\* comes to.  The except clause swallows the OSError, not what the failing
\* call did to the file.
save_to_csv(f, ticker, earnings_data, annualized_growth_rate, out) ==
    to_csv(f, ModellingFile(ticker),
           with_growth_rate(earnings_data, annualized_growth_rate), out)

\* Lines 174 and 176.
save_to_csv_log(ticker, out) ==
    IF to_csv_raises(out) THEN ErrorLog("Error saving data for", ticker)
    ELSE <<[msg |-> "Data saved to", ticker |-> ticker]>>

\* Lines 191-196: is save_to_csv called for this frame
is_saved(earnings_data, build) ==
    /\ ~empty(earnings_data)
    /\ calculate_growth_rate(earnings_data, build) # None

\* an iteration that does not come to line 173
NotCalled == [kind |-> "uncalled", left |-> 0]

\* what the to_csv call of an iteration can come to, if there is one
save_outcomes(ticker, e, build) ==
    LET earnings_data == fetch_yahoo_earnings_data(ticker, e)
    IN  IF is_saved(earnings_data, build)
        THEN to_csv_outcomes(Len(earnings_data.rows))
        ELSE {NotCalled}

\* Lines 190-198: the files after one iteration of the loop.
modelling_iteration(f, ticker, e, build, out) ==
    LET earnings_data == fetch_yahoo_earnings_data(ticker, e)
    IN  IF is_saved(earnings_data, build)
        THEN save_to_csv(f, ticker, calculate_growth_rate_frame(earnings_data, build),
                         calculate_growth_rate(earnings_data, build), out)
        ELSE f

modelling_iteration_log(ticker, e, build, out) ==
    LET earnings_data == fetch_yahoo_earnings_data(ticker, e)
    IN  fetch_yahoo_earnings_data_log(ticker, e)
        \o (IF empty(earnings_data) THEN <<>>
            ELSE calculate_growth_rate_log(earnings_data, build)
                 \o (IF is_saved(earnings_data, build)
                     THEN save_to_csv_log(ticker, out) ELSE <<>>))

\* Lines 182-185: read the ticker list, make the directory.  Line 185
\* stands in no try block: what os.makedirs raises ends the run.
GetModellingData_Start ==
    /\ pc = "idle"
    /\ tickers' = get_tickers_list(file)
    /\ log' = log \o get_tickers_list_log(file)
    /\ backtest_data' = makedirs(backtest_data)
    /\ IF makedirs_raises(backtest_data)
       THEN /\ raised' = makedirs_error(backtest_data)
            /\ pc' = "raised"
            /\ UNCHANGED i
       ELSE /\ i' = 1
            /\ pc' = "model"
            /\ UNCHANGED raised
    /\ UNCHANGED <<file, pandas, dirBefore, fs, all_stock_data, all_dividends_data,
                   all_earnings_data, merged, macro_data, calls, arg, ret>>

\* Lines 187-200: one iteration of the loop.  No statement of the try block
\* can raise into the except clause of line 199: the three callees swallow
\* their own exceptions.
GetModellingData_Iteration ==
    /\ pc = "model"
    /\ i <= Len(tickers)
    /\ \E e \in EarningsResponses(tickers[i]) :
        \E out \in save_outcomes(tickers[i], e, pandas) :
        /\ fs' = modelling_iteration(fs, tickers[i], e, pandas, out)
        /\ log' = log \o modelling_iteration_log(tickers[i], e, pandas, out)
        /\ calls' = Append(calls, [ticker |-> tickers[i], earnings |-> e,
                                   save |-> out])
    /\ i' = i + 1
    /\ UNCHANGED <<file, pandas, backtest_data, dirBefore, raised, pc, tickers, all_stock_data,
                   all_dividends_data, all_earnings_data, merged, macro_data,
                   arg, ret>>

\* The loop is over: get_modelling_data returns.
GetModellingData_Return ==
    /\ pc = "model"
    /\ i > Len(tickers)
    /\ pc' = "done"
    /\ UNCHANGED <<file, pandas, backtest_data, dirBefore, fs, log, raised, tickers, i,
                   all_stock_data, all_dividends_data, all_earnings_data, merged,
                   macro_data, calls, arg, ret>>

InitModelling == InitPipeline /\ pandas \in PandasBuilds

NextModelling ==
    \/ GetModellingData_Start
    \/ GetModellingData_Iteration
    \/ GetModellingData_Return

SpecModelling == InitModelling /\ [][NextModelling]_vars

----------------------------------------------------------------------------
(* The functions called on their own.                                      *)

InitCall ==
    /\ backtest_data = "absent"
    /\ dirBefore = "absent"
    /\ fs = NoFiles
    /\ log = <<>>
    /\ raised = "none"
    /\ pc = "idle"
    /\ tickers = <<>>
    /\ i = 0
    /\ all_stock_data = <<>>
    /\ all_dividends_data = <<>>
    /\ all_earnings_data = <<>>
    /\ merged = NoMerged
    /\ macro_data = DataFrame
    /\ calls = <<>>
    /\ ret = None

\* get_tickers_list(input_file)
CallGetTickersList ==
    /\ pc = "idle"
    /\ tickers' = get_tickers_list(file)
    /\ log' = log \o get_tickers_list_log(file)
    /\ pc' = "done"
    /\ UNCHANGED <<file, pandas, backtest_data, dirBefore, fs, raised, i, all_stock_data,
                   all_dividends_data, all_earnings_data, merged, macro_data,
                   calls, arg, ret>>

InitTickers == InitCall /\ file \in ColumnFiles /\ pandas = "pad" /\ arg = None

SpecTickers == InitTickers /\ [][CallGetTickersList]_vars

\* the values a Reported EPS cell takes
EPSValues == {NaN, NonNumeric, Num(0), Num(-1), Num(2), Q(11, 5), Q(12, 5)}

\* an earnings frame as fetch_yahoo_earnings_data returns it, most recent first
EarningsFrame(eps) ==
    Frame({"Date", "ReportedEPS", "Ticker"},
          [j \in DOMAIN eps |->
              [Date |-> Len(eps) - j + 1, ReportedEPS |-> eps[j], Ticker |-> "AAPL"]])

\* the frames calculate_growth_rate is called on: every column of EPS values
\* (the column without a row among them), a frame that lacks the column, and
\* the frame of a failed fetch
GrowthFrames ==
    {EarningsFrame(eps) : eps \in SeqsUpTo(EPSValues, MaxEPS)}
    \cup {Frame({"Date", "Ticker"}, <<[Date |-> 1, Ticker |-> "AAPL"]>>), DataFrame}

\* calculate_growth_rate(earnings_df)
CallCalculateGrowthRate ==
    /\ pc = "idle"
    /\ ret' = [value |-> calculate_growth_rate(arg, pandas),
               frame |-> calculate_growth_rate_frame(arg, pandas)]
    /\ log' = log \o calculate_growth_rate_log(arg, pandas)
    /\ pc' = "done"
    /\ UNCHANGED <<file, pandas, backtest_data, dirBefore, fs, raised, tickers, i, all_stock_data,
                   all_dividends_data, all_earnings_data, merged, macro_data,
                   calls, arg>>

InitGrowth ==
    InitCall /\ file = MissingFile /\ pandas \in PandasBuilds /\ arg \in GrowthFrames

SpecGrowth == InitGrowth /\ [][CallCalculateGrowthRate]_vars

\* the arguments calculate_intrinsic_value is called on: n and n/20 for small
\* n, the float specials, and None
ValueArgs ==
    {Q(n, d) : n \in -MaxNum..MaxNum, d \in {1, 20}} \cup {NaN, Inf(1), Inf(-1), None}

\* calculate_intrinsic_value(eps, growth_rate)
CallCalculateIntrinsicValue ==
    /\ pc = "idle"
    /\ ret' = calculate_intrinsic_value(arg.eps, arg.growth_rate)
    /\ log' = log \o calculate_intrinsic_value_log(arg.eps, arg.growth_rate)
    /\ pc' = "done"
    /\ UNCHANGED <<file, pandas, backtest_data, dirBefore, fs, raised, tickers, i, all_stock_data,
                   all_dividends_data, all_earnings_data, merged, macro_data,
                   calls, arg>>

InitIntrinsic ==
    /\ InitCall /\ file = MissingFile /\ pandas = "pad"
    /\ arg \in [eps : ValueArgs, growth_rate : ValueArgs]

SpecIntrinsic == InitIntrinsic /\ [][CallCalculateIntrinsicValue]_vars

----------------------------------------------------------------------------
(* Properties.                                                             *)

Count(s, x) == Cardinality({j \in DOMAIN s : s[j] = x})

\* a and b hold the same rows, each as often
IsPermutation(a, b) ==
    /\ Len(a) = Len(b)
    /\ \A r \in Range(a) \cup Range(b) : Count(a, r) = Count(b, r)

\* the rows are in ascending (Date, Ticker) order
IsSortedByDateTicker(rows) ==
    \A j \in 1..(Len(rows) - 1) :
        \/ rows[j].Date < rows[j + 1].Date
        \/ /\ rows[j].Date = rows[j + 1].Date
           /\ TickerRank(rows[j].Ticker) <= TickerRank(rows[j + 1].Ticker)

\* the rows the provider gave for one iteration, each with the ticker asked for
StockRowsOf(c) ==
    [j \in DOMAIN c.yahoo.hist.rows |->
        [Date |-> c.yahoo.hist.rows[j].Date, Close |-> c.yahoo.hist.rows[j].Close,
         Ticker |-> c.ticker]]
DividendRowsOf(c) ==
    [j \in DOMAIN c.yahoo.divs.rows |->
        [Date |-> c.yahoo.divs.rows[j].Date,
         Dividends |-> c.yahoo.divs.rows[j].Dividends, Ticker |-> c.ticker]]
EarningsRowsOf(c) ==
    [j \in DOMAIN c.earnings.cal.rows |->
        [Date |-> c.earnings.cal.rows[j].Date,
         ReportedEPS |-> c.earnings.cal.rows[j].ReportedEPS, Ticker |-> c.ticker]]

\* the tables one after the other
RECURSIVE Flatten(_)
Flatten(tables) ==
    IF tables = <<>> THEN <<>> ELSE Head(tables) \o Flatten(Tail(tables))

\* the rows of the calls that did not fail, in call order
FetchedStock ==
    Flatten([j \in DOMAIN calls |->
                IF calls[j].yahoo.ok THEN StockRowsOf(calls[j]) ELSE <<>>])
FetchedDividends ==
    Flatten([j \in DOMAIN calls |->
                IF calls[j].yahoo.ok THEN DividendRowsOf(calls[j]) ELSE <<>>])
FetchedEarnings ==
    Flatten([j \in DOMAIN calls |->
                IF calls[j].earnings.ok THEN EarningsRowsOf(calls[j]) ELSE <<>>])

\* pd.concat of lines 86-88 raised
ConcatRaised == raised = "ValueError: No objects to concatenate"
\* fetch_and_merge_data has returned (the writer may have raised after it)
Returned == pc \in {"merged", "done"} \/ (pc = "raised" /\ ~ConcatRaised)
LoopOver == pc \notin {"idle", "fetch"}

SomeCallFailed == \E j \in DOMAIN calls : ~calls[j].yahoo.ok \/ ~calls[j].earnings.ok

\* C1: whatever identifiers fail, the adapters return empty tables for them,
\* the batch goes on to its end without raising, and the merged tables hold
\* exactly the rows of the identifiers whose calls did not fail.
C1_FailuresAreIsolated ==
    SomeCallFailed =>
        /\ ~ConcatRaised
        /\ pc = "fetch" => Len(calls) = i - 1
        /\ Returned =>
            /\ IsPermutation(merged.stock.rows, FetchedStock)
            /\ IsPermutation(merged.dividends.rows, FetchedDividends)
            /\ IsPermutation(merged.earnings.rows, FetchedEarnings)

\* C2: once the loop is over with nothing collected for one of the three
\* tables, fetch_and_merge_data has returned, with that table empty.
C2_AllEmptyGivesEmptyTable ==
    /\ (LoopOver /\ all_stock_data = <<>>) => (Returned /\ empty(merged.stock))
    /\ (LoopOver /\ all_dividends_data = <<>>) => (Returned /\ empty(merged.dividends))
    /\ (LoopOver /\ all_earnings_data = <<>>) => (Returned /\ empty(merged.earnings))

\* C3: when the identifier file cannot be read the list is empty, and the
\* run started with it completes without raising and writes no file.
C3_UnreadableFileRunCompletes ==
    get_tickers_list_fails(file) =>
        /\ pc # "idle" => tickers = <<>>
        /\ raised = "none"
        /\ pc # "raised"
        /\ \A t \in Tickers : ModellingFile(t) \notin DOMAIN fs
        /\ {"stock_data.csv", "dividends_data.csv", "earnings_data.csv"}
              \cap DOMAIN fs = {}

\* C4: each table fetch_and_merge_data returns is a permutation of the
\* concatenation of the per-identifier tables (every row with the identifier
\* it was fetched for, nothing for an identifier without data) and is in
\* ascending (Date, Ticker) order.
C4_MergedIsSortedPermutation ==
    Returned =>
        /\ IsPermutation(merged.stock.rows, FetchedStock)
        /\ IsPermutation(merged.dividends.rows, FetchedDividends)
        /\ IsPermutation(merged.earnings.rows, FetchedEarnings)
        /\ IsSortedByDateTicker(merged.stock.rows)
        /\ IsSortedByDateTicker(merged.dividends.rows)
        /\ IsSortedByDateTicker(merged.earnings.rows)

\* C4 witness: MSFT was fetched before AAPL, one of the two has no dividend
\* row, and the returned price table starts with AAPL's row of the shared date.
C4_Witness ==
    /\ pc = "merged"
    /\ tickers = <<"MSFT", "AAPL">>
    /\ Len(merged.stock.rows) = 4
    /\ merged.stock.rows[1].Ticker = "AAPL"
    /\ merged.stock.rows[2].Ticker = "MSFT"
    /\ empty(calls[1].yahoo.divs)
    /\ Len(merged.dividends.rows) = 1

\* the frame get_modelling_data holds for a call after the fetch
EarningsDataOf(c) ==
    IF c.earnings.ok
    THEN Frame(c.earnings.cal.columns \cup {"Ticker"}, EarningsRowsOf(c))
    ELSE DataFrame

\* the call fetched a non-empty earnings table and its growth rate is present
HasGrowthRate(c) ==
    /\ ~empty(EarningsDataOf(c))
    /\ calculate_growth_rate(EarningsDataOf(c), pandas) # None

\* the call fetched a non-empty earnings table, its growth rate is present,
\* and its save did not fail
ProducesFile(c) == HasGrowthRate(c) /\ c.save.kind = "written"

\* the calls for identifier t that made or emptied its file: the table was
\* not empty, the growth rate present, and open() was not refused
Openings(t) ==
    {j \in DOMAIN calls :
        calls[j].ticker = t /\ HasGrowthRate(calls[j]) /\ calls[j].save.kind # "refused"}

\* the last of them
LastOpening(t) == CHOOSE j \in Openings(t) : \A k \in Openings(t) : k <= j

\* the file holds the rows fetched by call c, each with the growth rate of c
HoldsTableOf(df, c) ==
    /\ Len(df.rows) = Len(EarningsRowsOf(c))
    /\ "AnnualizedGrowthRate" \in df.columns
    /\ \A k \in DOMAIN df.rows :
        /\ df.rows[k].Date = EarningsRowsOf(c)[k].Date
        /\ df.rows[k].ReportedEPS = EarningsRowsOf(c)[k].ReportedEPS
        /\ df.rows[k].Ticker = c.ticker
        /\ df.rows[k].AnnualizedGrowthRate
              = calculate_growth_rate(EarningsDataOf(c), pandas)

HasLogged(message, ticker) ==
    \E j \in DOMAIN log : log[j] = [msg |-> message, ticker |-> ticker]

\* C5: a modelling file exists for an identifier exactly if a call for it
\* fetched a non-empty earnings table with a growth rate present and its
\* save did not fail: an identifier whose fetch, computation or save fails
\* has no file of that call; each such failure is logged; the loop raises
\* nothing, and every identifier of the list gets its iteration once the
\* loop is entered.
C5_OneFilePerSuccessfulIdentifier ==
    /\ pc \in {"model", "done"} => raised = "none"
    /\ pc = "raised" => (makedirs_raises(dirBefore) /\ calls = <<>>)
    /\ pc = "model" => Len(calls) = i - 1
    /\ pc = "done" => Len(calls) = Len(tickers)
    /\ \A j \in DOMAIN calls : calls[j].ticker = tickers[j]
    /\ \A t \in Tickers :
        ModellingFile(t) \in DOMAIN fs
            <=> \E j \in DOMAIN calls : calls[j].ticker = t /\ ProducesFile(calls[j])
    /\ \A j \in DOMAIN calls :
        /\ ~calls[j].earnings.ok
              => HasLogged("Error fetching earnings data for", calls[j].ticker)
        /\ (\E k \in DOMAIN EarningsDataOf(calls[j]).rows :
                ~IsFloat(EarningsDataOf(calls[j]).rows[k].ReportedEPS))
              => HasLogged("Error calculating growth rate", "")
        /\ (HasGrowthRate(calls[j]) /\ calls[j].save.kind # "written")
              => HasLogged("Error saving data for", calls[j].ticker)

\* What does hold of get_modelling_data (see C5): the loop raises nothing
\* and gives every identifier its iteration; no identifier with an empty
\* earnings table or without a growth rate gets a file; an identifier has a
\* file exactly if a save for it got past open(), and the file holds the
\* fetched rows with the growth rate when the last such save succeeded;
\* every failing fetch, computation and save is logged.
ModellingFilesFollowSaves ==
    /\ pc \in {"model", "done"} => raised = "none"
    /\ pc = "raised" => (makedirs_raises(dirBefore) /\ calls = <<>>)
    /\ pc = "model" => Len(calls) = i - 1
    /\ pc = "done" => Len(calls) = Len(tickers)
    /\ \A j \in DOMAIN calls : calls[j].ticker = tickers[j]
    /\ \A t \in Tickers :
        /\ ModellingFile(t) \in DOMAIN fs <=> Openings(t) # {}
        /\ (Openings(t) # {} /\ calls[LastOpening(t)].save.kind = "written")
              => HoldsTableOf(fs[ModellingFile(t)], calls[LastOpening(t)])
    /\ \A j \in DOMAIN calls :
        /\ ~calls[j].earnings.ok
              => HasLogged("Error fetching earnings data for", calls[j].ticker)
        /\ (\E k \in DOMAIN EarningsDataOf(calls[j]).rows :
                ~IsFloat(EarningsDataOf(calls[j]).rows[k].ReportedEPS))
              => HasLogged("Error calculating growth rate", "")
        /\ (HasGrowthRate(calls[j]) /\ calls[j].save.kind # "written")
              => HasLogged("Error saving data for", calls[j].ticker)
        /\ (HasGrowthRate(calls[j]) /\ calls[j].save.kind = "written")
              => HasLogged("Data saved to", calls[j].ticker)
        /\ ~HasGrowthRate(calls[j]) => calls[j].save = NotCalled

\* the table get_backtest_data writes to the file of the given name
TableOf(name) ==
    CASE name = "stock_data.csv"     -> merged.stock
      [] name = "dividends_data.csv" -> merged.dividends
      [] name = "earnings_data.csv"  -> merged.earnings
      [] OTHER                       -> macro_data

\* the four files in the order get_backtest_data writes them
WritingOrder ==
    <<"stock_data.csv", "dividends_data.csv", "earnings_data.csv", "macro_data.csv">>

\* C6: get_backtest_data never has a file for an empty table; a file it has
\* holds its table, but for the one file whose to_csv failed while writing,
\* which ends the run with OSError; the tables are written in order, so a
\* file is there only with the files of the non-empty tables before it
\* written in full; no file is there before the writer runs; when the run
\* is done the directory exists and each of the four files exists exactly
\* if its table is not empty; os.makedirs raises neither for a directory
\* that is absent nor for one that is already there.
C6_WriterWritesNonEmptyOnly ==
    /\ DOMAIN fs \subseteq BacktestFiles
    /\ \A name \in DOMAIN fs : ~empty(TableOf(name))
    /\ raised # "OSError" => \A name \in DOMAIN fs : fs[name] = TableOf(name)
    /\ \A a \in DOMAIN WritingOrder : \A b \in DOMAIN WritingOrder :
        (a < b /\ WritingOrder[b] \in DOMAIN fs /\ ~empty(TableOf(WritingOrder[a])))
            => /\ WritingOrder[a] \in DOMAIN fs
               /\ fs[WritingOrder[a]] = TableOf(WritingOrder[a])
    /\ \A name \in DOMAIN fs :
        fs[name] # TableOf(name) => Len(fs[name].rows) < Len(TableOf(name).rows)
    /\ pc \in {"idle", "fetch", "merged"} => fs = NoFiles
    /\ dirBefore \in {"absent", "directory"}
          => raised \notin {"FileExistsError", "PermissionError"}
    /\ pc = "done" =>
        /\ backtest_data = "directory"
        /\ raised = "none"
        /\ \A name \in BacktestFiles : name \in DOMAIN fs <=> ~empty(TableOf(name))

\* C6 witness: a run that found the directory in place is done; the macro
\* series came back empty and has no file, the three merged tables have theirs.
C6_Witness ==
    /\ pc = "done"
    /\ dirBefore = "directory"
    /\ empty(macro_data)
    /\ DOMAIN fs = {"stock_data.csv", "dividends_data.csv", "earnings_data.csv"}

\* C7: for a file with a Ticker column of n entries get_tickers_list returns
\* the first min(n, 5) entries, in file order, each as it stands in the file.
C7_FirstFiveEntriesUnaltered ==
    (pc = "done" /\ ~get_tickers_list_fails(file)) =>
        /\ Len(tickers) = Min(Len(file.column), TickerLimit)
        /\ \A j \in DOMAIN tickers : tickers[j] = file.column[j]

\* What does hold of get_tickers_list (see C7): the result has min(n, 5)
\* entries, the j-th being the file's j-th entry unless that is a
\* missing-value marker, which comes back as nan.
TickersArePrefixOfParsedColumn ==
    (pc = "done" /\ ~get_tickers_list_fails(file)) =>
        /\ Len(tickers) = Min(Len(file.column), TickerLimit)
        /\ \A j \in DOMAIN tickers :
            tickers[j] = IF file.column[j] = "NA" THEN NaNCell ELSE file.column[j]

\* the changes (x[j] - x[j-1]) / x[j-1] of a column of numbers that are
\* defined: both values are numbers and the earlier one is not zero
DefinedChanges(x) ==
    LET defined(j) == /\ j > 1
                      /\ IsFinite(x[j]) /\ IsFinite(x[j - 1])
                      /\ x[j - 1].n # 0
        all == [j \in DOMAIN x |->
                   IF defined(j) THEN FDiv(FSub(x[j], x[j - 1]), x[j - 1]) ELSE NaN]
    IN  SelectSeq(all, LAMBDA v : v.k # "nan")

\* 4 times the mean of the defined changes of the frame's Reported EPS, or
\* None without one
FourTimesMeanChange(df) ==
    IF astype_raises(df) THEN None
    ELSE LET changes == DefinedChanges(Column(df, "ReportedEPS"))
         IN  IF changes = <<>> THEN None
             ELSE FMul(Num(4), FDiv(FSum(changes), Num(Len(changes))))

\* C8: calculate_growth_rate returns 4 times the mean of the fractional
\* changes between consecutive Reported EPS values in received order, the
\* undefined ones dropped, and None when no change is left; it never raises.
C8_GrowthRateIsFourTimesMeanChange ==
    pc = "done" => ret.value = FourTimesMeanChange(arg) /\ raised = "none"

\* no value follows a zero, and no nan follows a number when pct_change pads
PlainColumn(df) ==
    \A j \in DOMAIN df.rows : \A k \in DOMAIN df.rows :
        (j < k /\ "ReportedEPS" \in df.columns /\ IsFloat(df.rows[j].ReportedEPS)
               /\ IsFloat(df.rows[k].ReportedEPS)) =>
            /\ (k = j + 1 /\ df.rows[j].ReportedEPS = Num(0))
                  => df.rows[k].ReportedEPS.k = "nan"
            /\ (pads(pandas) /\ IsFinite(df.rows[j].ReportedEPS))
                  => df.rows[k].ReportedEPS.k # "nan"

\* What does hold of calculate_growth_rate (see C8): on such a column the
\* value returned is 4 times the mean of the defined changes.
GrowthRateOnPlainColumns ==
    (pc = "done" /\ PlainColumn(arg)) => ret.value = FourTimesMeanChange(arg)

\* C9: calculate_intrinsic_value returns eps * (7 + 2 * growth_rate) for
\* numbers (checked by cross-multiplying the fractions), a float for any two
\* floats, and None with an error logged, nothing raised, when an argument
\* is None.
C9_IntrinsicValueFormula ==
    pc = "done" =>
        /\ raised = "none"
        /\ (IsFinite(arg.eps) /\ IsFinite(arg.growth_rate)) =>
            /\ IsFinite(ret)
            /\ ret.n * (arg.eps.d * arg.growth_rate.d)
                 = ret.d * (arg.eps.n * (7 * arg.growth_rate.d + 2 * arg.growth_rate.n))
            /\ log = <<>>
        /\ (IsFloat(arg.eps) /\ IsFloat(arg.growth_rate)) => IsFloat(ret)
        /\ (arg.eps = None \/ arg.growth_rate = None) =>
            /\ ret = None
            /\ HasLogged("Error calculating intrinsic value", "")

\* C9 witness: the call with eps = 2.0 and growth_rate = 0.05 returned 14.2.
C9_Witness ==
    /\ pc = "done"
    /\ arg = [eps |-> Num(2), growth_rate |-> Q(1, 20)]
    /\ ret = Q(71, 5)

\* C10: calculate_growth_rate leaves its frame alone, so a modelling file
\* that was written in full holds the columns of the fetched earnings table
\* and the one added column Annualized Growth Rate.
C10_PersistedColumnsAreFetchedPlusOne ==
    \A t \in Tickers :
        (Openings(t) # {} /\ calls[LastOpening(t)].save.kind = "written") =>
            fs[ModellingFile(t)].columns
                = {"Date", "ReportedEPS", "Ticker", "AnnualizedGrowthRate"}

====
